---- MODULE Spec2Model ----
(***************************************************************************)
(* Real-time room presence and connection tracking of the BoilerPlate      *)
(* server: the Redis-backed connection registry and verification flags     *)
(* (server/helpers/redis.py), the credential check of a socket             *)
(* (server/helpers/ws.py) and the Socket.IO handlers connect, disconnect,  *)
(* room.join and room.leave (server/views/ws/rooms).                       *)
(*                                                                         *)
(* Handlers of different connections interleave at every call that does    *)
(* I/O (a Redis command, a database query or commit, an emit), so each     *)
(* such call is one action.  Redis is modelled by what its commands do:    *)
(* SADD creates the key, SREM of the last member removes the key, EXPIRE   *)
(* sets a deadline, and a key whose deadline has passed is gone.           *)
(***************************************************************************)
EXTENDS Integers, FiniteSets, Sequences, TLC

VARIABLES
    now,         \* time.time(), in seconds
    ticks,       \* how many times the clock has been advanced
    redisUp,     \* whether Redis answers (get_redis_client's ping, each command)
    reg,         \* Redis: user:sockets:<id>, the set of socket ids and its deadline
    ver,         \* Redis: user:verification:<id>, the flag and its deadline
    lastMarked,  \* history: when set_user_verification_received(u) last ran
    calls,       \* history: the last two calls of the registry's functions
    result,      \* the last call of a redis.py function made on its own: its outcome
    users,       \* database: User.last_seen and User.active
    rooms,       \* database: the codes of the Room rows
    groups,      \* Socket.IO: the sids in room:<code>
    conn,        \* Socket.IO: each sid's state and the token of its handshake
    pc,          \* each sid's handler: the statement it is at
    h,           \* each sid's handler: its name and local variables
    out,         \* the events the running (or just finished) handler emitted
    tasks        \* the background tasks emit_function_after_delay has started

vars == <<now, ticks, redisUp, reg, ver, lastMarked, calls, result, users, rooms, groups, conn, pc, h, out, tasks>>

----------------------------------------------------------------------------
(* Bounds and inputs *)

\* How many times the clock is advanced in one behaviour.
MaxAdvances == 1

\* The socket ids (request.sid) of the connections.
Conns == {"s1", "s2"}

\* User.id of the rows of the user table.
UserIds == {1, 2}

\* The codes secrets.token_hex(7) hands out, in the order it does here.
RoomCodes == {"r1", "r2"}

\* The "code" of an event's data: absent (or empty), no room's code, a code.
DataCodes == {"", "zz"} \cup RoomCodes

\* Python's None where an int is expected.
None == -1

\* redis_client.expire(key, 86400)
REGISTRY_TTL == 86400

\* redis_client.setex(key, 30, "verified")
VERIFICATION_TTL == 30

\* How far the clock moves in one step: past the verification window (and the
\* short-lived token's expiry), past the registry's time-to-live.
Durations == {VERIFICATION_TTL, REGISTRY_TTL}

\* A token: signed with JWT_SECRET or not, its "sub" claim as issued (the
\* string of a user id; "" when the claim is missing), its "exp" claim.
\* NoToken is a handshake without one.
NoToken == [present |-> FALSE, sig |-> FALSE, sub |-> "", exp |-> 0]

\* The handshakes tried: no token, a forged one, signed ones without a
\* subject, with subject "0" and with a subject that is no number, user 1's
\* about to expire and user 2's fresh one (exp = iat + 14 days).
Tokens ==
    {NoToken}
      \cup [present : {TRUE}, sig : {FALSE}, sub : {"1"}, exp : {1209600}]
      \cup [present : {TRUE}, sig : {TRUE}, sub : {"", "0", "x"}, exp : {1209600}]
      \cup {[present |-> TRUE, sig |-> TRUE, sub |-> "1", exp |-> 30],
            [present |-> TRUE, sig |-> TRUE, sub |-> "2", exp |-> 1209600]}

----------------------------------------------------------------------------
(* Redis commands, on the sets user:sockets:<id> *)

Absent == [present |-> FALSE, members |-> {}, expireAt |-> None]

Sadd(r, u, c) ==
    [r EXCEPT ![u] = [present |-> TRUE,
                      members |-> @.members \cup {c},
                      expireAt |-> @.expireAt]]

Expire(r, u, t, ttl) ==
    IF r[u].present THEN [r EXCEPT ![u].expireAt = t + ttl] ELSE r

Srem(r, u, c) ==
    IF r[u].members \ {c} = {}
    THEN [r EXCEPT ![u] = Absent]
    ELSE [r EXCEPT ![u].members = @ \ {c}]

Scard(r, u) == Cardinality(r[u].members)

Delete(r, u) == [r EXCEPT ![u] = Absent]

Smembers(r, u) == r[u].members

\* What Redis holds at time t: a key whose deadline has passed is gone.
Expired(k, t) == k.present /\ k.expireAt # None /\ k.expireAt <= t

PurgeExpired(r, t) ==
    [u \in DOMAIN r |-> IF Expired(r[u], t) THEN Absent ELSE r[u]]

----------------------------------------------------------------------------
(* server/helpers/redis.py, each function run from its first command to    *)
(* its last with Redis up                                                  *)

\* track_socket_connection that sets the deadline of a new key only
track_socket_connection_ttl_once(r, u, c, t) ==
    IF r[u].present /\ r[u].expireAt # None
    THEN Sadd(r, u, c)
    ELSE Expire(Sadd(r, u, c), u, t, REGISTRY_TTL)

track_socket_connection(r, u, c, t) ==
    Expire(Sadd(r, u, c), u, t, REGISTRY_TTL)

\* remove_socket_connection without its SREM
remove_socket_connection_no_srem(r, u, c) ==
    IF Scard(r, u) = 0 THEN Delete(r, u) ELSE r

remove_socket_connection(r, u, c) ==
    LET r1 == Srem(r, u, c)
    IN  IF Scard(r1, u) = 0 THEN Delete(r1, u) ELSE r1

get_user_socket_connections(r, u) == Smembers(r, u)

check_user_other_connections(r, u, c) ==
    Cardinality(get_user_socket_connections(r, u) \ {c}) > 0

NoFlag == [present |-> FALSE, expireAt |-> None]

\* set_user_verification_received with the registry's time-to-live
set_user_verification_for_a_day(v, u, t) ==
    [v EXCEPT ![u] = [present |-> TRUE, expireAt |-> t + REGISTRY_TTL]]

set_user_verification_received(v, u, t) ==
    [v EXCEPT ![u] = [present |-> TRUE, expireAt |-> t + VERIFICATION_TTL]]

clear_user_verification(v, u) == [v EXCEPT ![u] = NoFlag]

has_user_been_verified(v, u) == v[u].present

PurgeFlags(v, t) ==
    [u \in DOMAIN v |->
        IF v[u].present /\ v[u].expireAt <= t THEN NoFlag ELSE v[u]]

----------------------------------------------------------------------------
(* server/helpers/ws.py *)

\* int(sub): the number a string of digits writes; any other string raises
\* ValueError, which get_user_id_from_socket's except turns into None.
IntOf(str) ==
    CASE str = "0" -> 0
      [] str = "1" -> 1
      [] str = "2" -> 2
      [] OTHER -> None

\* get_user_id_from_socket decoding the token without verifying it
get_user_id_unverified(tok, t) ==
    IF ~tok.present \/ tok.sub = "" THEN None ELSE IntOf(tok.sub)

\* jwt.decode raises on a bad signature and on exp <= now, and the except
\* branch returns None; a payload without "sub" gives None.
get_user_id_from_socket(tok, t) ==
    IF ~tok.present THEN None
    ELSE IF ~tok.sig \/ tok.exp <= t THEN None
    ELSE IF tok.sub = "" THEN None
    ELSE IntOf(tok.sub)

\* Python's "not user_id": None and 0 are both false.
Falsy(uid) == uid = None \/ uid = 0

----------------------------------------------------------------------------
(* State *)

\* No call made yet.  conns is the set a call returned, flag the bool; nth
\* tells a call from the one before it.
NoResult ==
    [op |-> "", user |-> None, sid |-> "", nth |-> 0, up |-> TRUE, answered |-> 0,
     raised |-> FALSE, conns |-> {}, flag |-> FALSE]

NoLocals ==
    [handler |-> "", user_id |-> None, code |-> "", room |-> "",
     ret |-> FALSE, fault |-> FALSE]

Init ==
    /\ now = 0
    /\ ticks = 0
    /\ redisUp = TRUE
    /\ reg = [u \in UserIds |-> Absent]
    /\ ver = [u \in UserIds |-> NoFlag]
    /\ lastMarked = [u \in UserIds |-> None]
    /\ calls = <<>>
    /\ result = NoResult
    /\ users = [u \in UserIds |-> [last_seen |-> 0, active |-> TRUE]]
    /\ rooms = {"r1"}
    /\ groups = [r \in RoomCodes |-> {}]
    /\ conn = [c \in Conns |-> [st |-> "new", token |-> NoToken]]
    /\ pc = [c \in Conns |-> "idle"]
    /\ h = [c \in Conns |-> NoLocals]
    /\ out = [c \in Conns |-> <<>>]
    /\ tasks = <<>>

----------------------------------------------------------------------------
(* Events, as socketio.emit sends them *)

\* socketio.emit("room.error", {"error": msg}, to=request.sid)
RoomError(c, msg) ==
    [ev |-> "room.error", to |-> c, room |-> "", recips |-> {c}, info |-> msg]

\* socketio.emit("user.join.result", {"ok": True, "code": room.code, ...}, to=request.sid)
JoinResult(c, r) ==
    [ev |-> "user.join.result", to |-> c, room |-> r, recips |-> {c}, info |-> "ok"]

\* socketio.emit("presence.update", payload, room=f"room:{room.code}"): the
\* recipients are the group's members when it is sent.
PresenceUpdate(r, g) ==
    [ev |-> "presence.update", to |-> "", room |-> r, recips |-> g[r], info |-> ""]

\* emit_presence that publishes nothing
emit_presence_nothing(r, rs, g) == <<>>

\* emit_presence(room.id): nothing for a room that is gone.
emit_presence(r, rs, g) ==
    IF r \in rs THEN <<PresenceUpdate(r, g)>> ELSE <<>>

\* the room lookup without its filter: a row whatever the code
RoomByCodeUnfiltered(code, rs) == code

\* Room.query.filter_by(code=code).first(): the room, or "" for None.
RoomByCode(code, rs) == IF code \in rs THEN code ELSE ""

\* user = db.session.get(User, user_id); if user: user.last_seen = ...;
\* user.active = True; commit
TouchActive(us, u, t) ==
    IF u \in DOMAIN us
    THEN [us EXCEPT ![u] = [last_seen |-> t, active |-> TRUE]]
    ELSE us

\* the same in room.leave, which leaves user.active alone
\* (a touch that marks the user inactive)
TouchSeenInactive(us, u, t) ==
    IF u \in DOMAIN us
    THEN [us EXCEPT ![u] = [last_seen |-> t, active |-> FALSE]]
    ELSE us

TouchSeen(us, u, t) ==
    IF u \in DOMAIN us THEN [us EXCEPT ![u].last_seen = t] ELSE us

\* join_room that subscribes every sid there is, not only request.sid
\* join_room that takes out a sid that is already in the group
join_room_toggle(g, r, c) ==
    [g EXCEPT ![r] = IF c \in @ THEN @ \ {c} ELSE @ \cup {c}]

join_room_everyone(g, r, c) == [g EXCEPT ![r] = Conns]

\* join_room that leaves the group as it is
join_room_not_done(g, r, c) == g

\* join_room(f"room:{room.code}") of request.sid
join_room(g, r, c) == [g EXCEPT ![r] = @ \cup {c}]

\* leave_room that takes the sid out of every group
leave_room_every_group(g, r, c) == [x \in DOMAIN g |-> g[x] \ {c}]

\* leave_room that leaves the group as it is
leave_room_not_done(g, r, c) == g

\* leave_room(f"room:{room.code}") of request.sid

leave_room(g, r, c) == [g EXCEPT ![r] = @ \ {c}]

----------------------------------------------------------------------------
(* Handlers.  Start(c, name) is the dispatch of an event to its handler;   *)
(* a handler ends at pc "done" and HandlerReturn gives the sid back to     *)
(* the server.                                                             *)

Start(c, name, uid) ==
    [NoLocals EXCEPT !.handler = name, !.user_id = uid]

Goto(c, label) == pc' = [pc EXCEPT ![c] = label]

Emit(c, evs) == out' = [out EXCEPT ![c] = @ \o evs]

Registry == <<reg, ver, lastMarked, calls, result>>
Database == <<users, rooms>>
Clock == <<now, ticks>>

(* connect: join.py _on_connect, with track_socket_connection inlined *)

\* a connect that refuses the sid when Redis does not answer
ConnectBeginNeedsStore(c, tok) ==
    /\ conn[c].st = "new" /\ pc[c] = "idle"
    /\ conn' = [conn EXCEPT ![c].token = tok]
    /\ LET uid == get_user_id_from_socket(tok, now)
       IN  /\ h' = [h EXCEPT ![c] = Start(c, "connect", uid)]
           /\ Goto(c, IF Falsy(uid) \/ ~redisUp THEN "done" ELSE "track_sadd")
    /\ out' = [out EXCEPT ![c] = <<>>]
    /\ UNCHANGED <<Clock, redisUp, Registry, Database, groups, tasks>>

ConnectBegin(c, tok) ==
    /\ conn[c].st = "new" /\ pc[c] = "idle"
    /\ conn' = [conn EXCEPT ![c].token = tok]
    /\ LET uid == get_user_id_from_socket(tok, now)
       IN  /\ h' = [h EXCEPT ![c] = Start(c, "connect", uid)]
           /\ Goto(c, IF Falsy(uid) THEN "done"
                       ELSE IF redisUp THEN "track_sadd" ELSE "track_ret")
    /\ out' = [out EXCEPT ![c] = <<>>]
    /\ UNCHANGED <<Clock, redisUp, Registry, Database, groups, tasks>>

\* redis_client.sadd(key, socket_id); a failed command raises into the except
TrackSadd(c) ==
    /\ pc[c] = "track_sadd"
    /\ IF redisUp
       THEN /\ reg' = Sadd(reg, h[c].user_id, c)
            /\ Goto(c, "track_expire")
       ELSE /\ reg' = reg
            /\ Goto(c, "track_ret")
    /\ UNCHANGED <<Clock, redisUp, ver, lastMarked, calls, result, Database, groups, conn, h, out, tasks>>

\* redis_client.expire(key, 86400)
TrackExpire(c) ==
    /\ pc[c] = "track_expire"
    /\ reg' = IF redisUp THEN Expire(reg, h[c].user_id, now, REGISTRY_TTL) ELSE reg
    /\ Goto(c, "track_ret")
    /\ UNCHANGED <<Clock, redisUp, ver, lastMarked, calls, result, Database, groups, conn, h, out, tasks>>

\* return True
ConnectAccept(c) ==
    /\ pc[c] = "track_ret"
    /\ h' = [h EXCEPT ![c].ret = TRUE]
    /\ Goto(c, "done")
    /\ UNCHANGED <<Clock, redisUp, Registry, Database, groups, conn, out, tasks>>

(* disconnect: join.py _on_disconnect, with remove_socket_connection inlined *)

\* a disconnect that marks the user inactive
DisconnectBeginMarksInactive(c) ==
    /\ conn[c].st = "open" /\ pc[c] = "idle"
    /\ LET uid == get_user_id_from_socket(conn[c].token, now)
       IN  /\ h' = [h EXCEPT ![c] = Start(c, "disconnect", uid)]
           /\ Goto(c, IF Falsy(uid) \/ ~redisUp THEN "done" ELSE "untrack_srem")
           /\ users' = IF uid \in DOMAIN users
                       THEN [users EXCEPT ![uid].active = FALSE] ELSE users
    /\ out' = [out EXCEPT ![c] = <<>>]
    /\ UNCHANGED <<Clock, redisUp, Registry, rooms, groups, conn, tasks>>

DisconnectBegin(c) ==
    /\ conn[c].st = "open" /\ pc[c] = "idle"
    /\ LET uid == get_user_id_from_socket(conn[c].token, now)
       IN  /\ h' = [h EXCEPT ![c] = Start(c, "disconnect", uid)]
           /\ Goto(c, IF Falsy(uid) \/ ~redisUp THEN "done" ELSE "untrack_srem")
    /\ out' = [out EXCEPT ![c] = <<>>]
    /\ UNCHANGED <<Clock, redisUp, Registry, Database, groups, conn, tasks>>

\* redis_client.srem(key, socket_id)
UntrackSrem(c) ==
    /\ pc[c] = "untrack_srem"
    /\ IF redisUp
       THEN /\ reg' = Srem(reg, h[c].user_id, c)
            /\ Goto(c, "untrack_scard")
       ELSE /\ reg' = reg
            /\ Goto(c, "done")
    /\ UNCHANGED <<Clock, redisUp, ver, lastMarked, calls, result, Database, groups, conn, h, out, tasks>>

\* if redis_client.scard(key) == 0:
UntrackScard(c) ==
    /\ pc[c] = "untrack_scard"
    /\ Goto(c, IF redisUp /\ Scard(reg, h[c].user_id) = 0
               THEN "untrack_delete" ELSE "done")
    /\ UNCHANGED <<Clock, redisUp, Registry, Database, groups, conn, h, out, tasks>>

\* redis_client.delete(key)
UntrackDelete(c) ==
    /\ pc[c] = "untrack_delete"
    /\ reg' = IF redisUp THEN Delete(reg, h[c].user_id) ELSE reg
    /\ Goto(c, "done")
    /\ UNCHANGED <<Clock, redisUp, ver, lastMarked, calls, result, Database, groups, conn, h, out, tasks>>

(* room.join: join.py _on_join_room *)

\* user_id = get_user_id_from_socket(); code = (data or {}).get("code")
JoinBegin(c, code) ==
    /\ conn[c].st = "open" /\ pc[c] = "idle"
    /\ LET uid == get_user_id_from_socket(conn[c].token, now)
       IN  /\ h' = [h EXCEPT ![c] = [Start(c, "room.join", uid) EXCEPT !.code = code]]
           /\ IF Falsy(uid)
              THEN /\ out' = [out EXCEPT ![c] = <<RoomError(c, "Authentication required")>>]
                   /\ Goto(c, "done")
              ELSE IF code = ""
              THEN /\ out' = [out EXCEPT ![c] = <<RoomError(c, "Room code required")>>]
                   /\ Goto(c, "done")
              ELSE /\ out' = [out EXCEPT ![c] = <<>>]
                   /\ Goto(c, "join_query")
    /\ UNCHANGED <<Clock, redisUp, Registry, Database, groups, conn, tasks>>

\* room = Room.query.filter_by(code=code).first(); if not room: room.error
JoinQuery(c) ==
    /\ pc[c] = "join_query"
    /\ LET room == RoomByCode(h[c].code, rooms)
       IN  IF room = ""
           THEN /\ Emit(c, <<RoomError(c, "Room not found")>>)
                /\ Goto(c, "done")
                /\ h' = h
           ELSE /\ h' = [h EXCEPT ![c].room = room]
                /\ Goto(c, "join_touch")
                /\ out' = out
    /\ UNCHANGED <<Clock, redisUp, Registry, Database, groups, conn, tasks>>

\* a room.join that publishes the presence before it joins the group
JoinTouchThenPublish(c) ==
    /\ pc[c] = "join_touch"
    /\ users' = TouchActive(users, h[c].user_id, now)
    /\ Emit(c, emit_presence(h[c].room, rooms, groups))
    /\ Goto(c, "join_group")
    /\ UNCHANGED <<Clock, redisUp, Registry, rooms, groups, conn, h, tasks>>

\* user.last_seen = int(time.time()); user.active = True; db.session.commit()
JoinTouch(c) ==
    /\ pc[c] = "join_touch"
    /\ users' = TouchActive(users, h[c].user_id, now)
    /\ Goto(c, "join_group")
    /\ UNCHANGED <<Clock, redisUp, Registry, rooms, groups, conn, h, out, tasks>>

\* join_room(f"room:{room.code}")
JoinGroup(c) ==
    /\ pc[c] = "join_group"
    /\ groups' = join_room(groups, h[c].room, c)
    /\ Goto(c, "join_presence")
    /\ UNCHANGED <<Clock, redisUp, Registry, Database, conn, h, out, tasks>>

\* emit_presence(room.id)
JoinPresence(c) ==
    /\ pc[c] = "join_presence"
    /\ Emit(c, emit_presence(h[c].room, rooms, groups))
    /\ Goto(c, "join_result")
    /\ UNCHANGED <<Clock, redisUp, Registry, Database, groups, conn, h, tasks>>

\* socketio.emit("user.join.result", {...}, to=request.sid)
JoinEmitResult(c) ==
    /\ pc[c] = "join_result"
    /\ Emit(c, <<JoinResult(c, h[c].room)>>)
    /\ h' = [h EXCEPT ![c].ret = TRUE]
    /\ Goto(c, "done")
    /\ UNCHANGED <<Clock, redisUp, Registry, Database, groups, conn, tasks>>

\* except Exception: socketio.emit("room.error", {"error": "Failed to join room"}, ...)
\* A statement of the try block that does I/O raises.
JoinPcs == {"join_query", "join_touch", "join_group", "join_presence", "join_result"}

JoinFault(c) ==
    /\ pc[c] \in JoinPcs
    /\ Emit(c, <<RoomError(c, "Failed to join room")>>)
    /\ h' = [h EXCEPT ![c].fault = TRUE]
    /\ Goto(c, "done")
    /\ UNCHANGED <<Clock, redisUp, Registry, Database, groups, conn, tasks>>

(* room.leave: leave.py _on_leave_room *)

\* a room.leave that answers a missing code as room.join does
LeaveBeginStrict(c, code) ==
    /\ conn[c].st = "open" /\ pc[c] = "idle"
    /\ LET uid == get_user_id_from_socket(conn[c].token, now)
       IN  /\ h' = [h EXCEPT ![c] = [Start(c, "room.leave", uid) EXCEPT !.code = code]]
           /\ Goto(c, IF Falsy(uid) \/ code = "" THEN "done" ELSE "leave_query")
           /\ out' = [out EXCEPT ![c] =
                         IF ~Falsy(uid) /\ code = ""
                         THEN <<RoomError(c, "Room code required")>> ELSE <<>>]
    /\ UNCHANGED <<Clock, redisUp, Registry, Database, groups, conn, tasks>>

LeaveBegin(c, code) ==
    /\ conn[c].st = "open" /\ pc[c] = "idle"
    /\ LET uid == get_user_id_from_socket(conn[c].token, now)
       IN  /\ h' = [h EXCEPT ![c] = [Start(c, "room.leave", uid) EXCEPT !.code = code]]
           /\ Goto(c, IF Falsy(uid) \/ code = "" THEN "done" ELSE "leave_query")
    /\ out' = [out EXCEPT ![c] = <<>>]
    /\ UNCHANGED <<Clock, redisUp, Registry, Database, groups, conn, tasks>>

\* (a room.leave that returns when its sid is not in the room's group)
LeaveQueryMembersOnly(c) ==
    /\ pc[c] = "leave_query"
    /\ LET room == RoomByCode(h[c].code, rooms)
       IN  /\ h' = [h EXCEPT ![c].room = room]
           /\ Goto(c, IF room = "" \/ c \notin groups[room] THEN "done" ELSE "leave_touch")
    /\ UNCHANGED <<Clock, redisUp, Registry, Database, groups, conn, out, tasks>>

\* room = Room.query.filter_by(code=code).first(); if not room: return
LeaveQuery(c) ==
    /\ pc[c] = "leave_query"
    /\ LET room == RoomByCode(h[c].code, rooms)
       IN  /\ h' = [h EXCEPT ![c].room = room]
           /\ Goto(c, IF room = "" THEN "done" ELSE "leave_touch")
    /\ UNCHANGED <<Clock, redisUp, Registry, Database, groups, conn, out, tasks>>

\* user.last_seen = int(time.time()); db.session.commit()
LeaveTouch(c) ==
    /\ pc[c] = "leave_touch"
    /\ users' = TouchSeen(users, h[c].user_id, now)
    /\ Goto(c, "leave_group")
    /\ UNCHANGED <<Clock, redisUp, Registry, rooms, groups, conn, h, out, tasks>>

\* leave_room(f"room:{room.code}")
LeaveGroup(c) ==
    /\ pc[c] = "leave_group"
    /\ groups' = leave_room(groups, h[c].room, c)
    /\ Goto(c, "leave_presence")
    /\ UNCHANGED <<Clock, redisUp, Registry, Database, conn, h, out, tasks>>

\* emit_presence(room.id)
LeavePresence(c) ==
    /\ pc[c] = "leave_presence"
    /\ Emit(c, emit_presence(h[c].room, rooms, groups))
    /\ h' = [h EXCEPT ![c].ret = TRUE]
    /\ Goto(c, "done")
    /\ UNCHANGED <<Clock, redisUp, Registry, Database, groups, conn, tasks>>

\* except Exception: logging.exception("room.leave handler error")
LeavePcs == {"leave_query", "leave_touch", "leave_group", "leave_presence"}

\* (here: a room.leave whose except clause reports as room.join's does)
LeaveFaultReports(c) ==
    /\ pc[c] \in LeavePcs
    /\ h' = [h EXCEPT ![c].fault = TRUE]
    /\ Emit(c, <<RoomError(c, "Failed to leave room")>>)
    /\ Goto(c, "done")
    /\ UNCHANGED <<Clock, redisUp, Registry, Database, groups, conn, tasks>>

LeaveFault(c) ==
    /\ pc[c] \in LeavePcs
    /\ h' = [h EXCEPT ![c].fault = TRUE]
    /\ Goto(c, "done")
    /\ UNCHANGED <<Clock, redisUp, Registry, Database, groups, conn, out, tasks>>

(* A statement of a handler's try block that is not a Redis command raises  *)
(* (an import, a logging call, the event's data being no dict): the except  *)
(* clause of the handler runs.                                              *)

\* a connect whose except clause lets the sid in
ConnectFaultAccepts(c) ==
    /\ pc[c] \in {"track_sadd", "track_ret"}
    /\ h[c].handler = "connect"
    /\ h' = [h EXCEPT ![c].ret = TRUE, ![c].fault = TRUE]
    /\ Goto(c, "done")
    /\ UNCHANGED <<Clock, redisUp, Registry, Database, groups, conn, out, tasks>>

\* except Exception: logging.exception(...); return False, raised before
\* track_socket_connection is entered or after it has returned
ConnectFault(c) ==
    /\ pc[c] \in {"track_sadd", "track_ret"}
    /\ h[c].handler = "connect"
    /\ h' = [h EXCEPT ![c].ret = FALSE, ![c].fault = TRUE]
    /\ Goto(c, "done")
    /\ UNCHANGED <<Clock, redisUp, Registry, Database, groups, conn, out, tasks>>

\* except Exception: logging.exception("disconnect: failed to clean up connection")
DisconnectFault(c) ==
    /\ pc[c] = "untrack_srem"
    /\ h[c].handler = "disconnect"
    /\ h' = [h EXCEPT ![c].fault = TRUE]
    /\ Goto(c, "done")
    /\ UNCHANGED <<Clock, redisUp, Registry, Database, groups, conn, out, tasks>>

\* room.join with data that is no dict: (data or {}).get("clientTimestamp")
\* raises before the credential is looked at
JoinBadData(c) ==
    /\ conn[c].st = "open" /\ pc[c] = "idle"
    /\ h' = [h EXCEPT ![c] = [Start(c, "room.join", None) EXCEPT !.fault = TRUE]]
    /\ out' = [out EXCEPT ![c] = <<RoomError(c, "Failed to join room")>>]
    /\ Goto(c, "done")
    /\ UNCHANGED <<Clock, redisUp, Registry, Database, groups, conn, tasks>>

\* room.leave with data that is no dict: (data or {}).get("code") raises
\* unless the handler has returned for want of a credential
LeaveBadData(c) ==
    /\ conn[c].st = "open" /\ pc[c] = "idle"
    /\ LET uid == get_user_id_from_socket(conn[c].token, now)
       IN  h' = [h EXCEPT ![c] = [Start(c, "room.leave", uid) EXCEPT !.fault = ~Falsy(uid)]]
    /\ out' = [out EXCEPT ![c] = <<>>]
    /\ Goto(c, "done")
    /\ UNCHANGED <<Clock, redisUp, Registry, Database, groups, conn, tasks>>

(* The handler returns to the Socket.IO server: connect's return value      *)
(* accepts or refuses the sid, and after disconnect the server takes the    *)
(* sid out of every group.                                                  *)

LeaveAll(g, c) == [r \in DOMAIN g |-> g[r] \ {c}]

HandlerReturn(c) ==
    /\ pc[c] = "done"
    /\ conn' = [conn EXCEPT ![c] =
                   IF h[c].handler = "connect"
                   THEN (IF h[c].ret THEN [@ EXCEPT !.st = "open"]
                                     ELSE [st |-> "refused", token |-> NoToken])
                   ELSE IF h[c].handler = "disconnect"
                   THEN [st |-> "closed", token |-> NoToken]
                   ELSE @]
    /\ groups' = IF h[c].handler = "disconnect" THEN LeaveAll(groups, c) ELSE groups
    /\ Goto(c, "idle")
    /\ h' = [h EXCEPT ![c] = NoLocals]
    /\ out' = [out EXCEPT ![c] = <<>>]
    /\ UNCHANGED <<Clock, redisUp, Registry, Database, tasks>>

----------------------------------------------------------------------------
(* The environment *)

\* Room's default code: secrets.token_hex(7), a code no room has yet.
NextCode(rs) == CHOOSE r \in RoomCodes \ rs : TRUE

\* POST /api/room.create by user u: a room with a fresh code, and the owner's
\* last_seen and active are updated in the same commit.
RoomCreate(u) ==
    /\ rooms # RoomCodes
    /\ rooms' = rooms \cup {NextCode(rooms)}
    /\ users' = TouchActive(users, u, now)
    /\ UNCHANGED <<Clock, redisUp, Registry, groups, conn, pc, h, out, tasks>>

\* Time passes; Redis drops the keys whose deadline has passed.
Advance(d) ==
    /\ ticks < MaxAdvances
    /\ now' = now + d
    /\ ticks' = ticks + 1
    /\ reg' = PurgeExpired(reg, now + d)
    /\ ver' = PurgeFlags(ver, now + d)
    /\ UNCHANGED <<redisUp, lastMarked, calls, result, Database, groups, conn, pc, h, out, tasks>>

\* Redis stops answering, and answers again.
StoreDown ==
    /\ redisUp
    /\ redisUp' = FALSE
    /\ UNCHANGED <<Clock, Registry, Database, groups, conn, pc, h, out, tasks>>

StoreUp ==
    /\ ~redisUp
    /\ redisUp' = TRUE
    /\ UNCHANGED <<Clock, Registry, Database, groups, conn, pc, h, out, tasks>>

----------------------------------------------------------------------------
(* The registry and the verification flags called on their own, one call   *)
(* after the other                                                         *)

Called(op, u, c) ==
    calls' = (IF Len(calls) < 2 THEN calls ELSE Tail(calls))
                \o <<[op |-> op, user |-> u, sid |-> c]>>

Track(u, c) ==
    /\ reg' = track_socket_connection(reg, u, c, now)
    /\ Called("track", u, c)
    /\ UNCHANGED <<Clock, redisUp, ver, lastMarked, result, Database, groups, conn, pc, h, out, tasks>>

Untrack(u, c) ==
    /\ reg' = remove_socket_connection(reg, u, c)
    /\ Called("untrack", u, c)
    /\ UNCHANGED <<Clock, redisUp, ver, lastMarked, result, Database, groups, conn, pc, h, out, tasks>>

MarkVerified(u) ==
    /\ ver' = set_user_verification_received(ver, u, now)
    /\ lastMarked' = [lastMarked EXCEPT ![u] = now]
    /\ UNCHANGED <<Clock, redisUp, reg, calls, result, Database, groups, conn, pc, h, out, tasks>>

ClearVerification(u) ==
    /\ ver' = clear_user_verification(ver, u)
    /\ UNCHANGED <<Clock, redisUp, reg, lastMarked, calls, result, Database, groups, conn, pc, h, out, tasks>>

----------------------------------------------------------------------------
(* server/helpers/redis.py with Redis failing: get_redis_client() is None   *)
(* when the ping fails, and a command raises from the moment Redis stops    *)
(* answering.  `up` is whether the ping is answered and k how many commands *)
(* are answered after it.                                                   *)

\* The most commands one function issues (srem, scard, delete).
MaxCommands == 3

\* How many of the n commands a function issues are answered.
Answered(n) == 0..n

\* get_redis_client(): the client, or None (FALSE)
get_redis_client(up) == up

\* the functions, none of whose commands is outside a try block
GuardedButList == {"track", "untrack", "mark", "clear", "verified"}

\* The functions whose commands run inside try ... except Exception.
Guarded == {"track", "untrack", "list", "others", "mark", "clear", "verified"}

\* sadd; expire
TrackCall(r, u, c, t, up, k) ==
    IF ~get_redis_client(up) \/ k = 0 THEN r
    ELSE IF k = 1 THEN Sadd(r, u, c)
    ELSE Expire(Sadd(r, u, c), u, t, REGISTRY_TTL)

\* srem; if scard == 0: delete
UntrackCall(r, u, c, up, k) ==
    IF ~get_redis_client(up) \/ k = 0 THEN r
    ELSE LET r1 == Srem(r, u, c)
         IN  IF k = 1 THEN r1
             ELSE IF Scard(r1, u) # 0 THEN r1
             ELSE IF k = 2 THEN r1
             ELSE Delete(r1, u)

\* The commands a function issues when none fails.
Issued(op, r, u, c) ==
    CASE op = "track" -> 2
      [] op = "untrack" -> (IF Scard(Srem(r, u, c), u) = 0 THEN MaxCommands ELSE 2)
      [] OTHER -> 1

\* return redis_client.smembers(key); set() in the except and the else branch
ListCall(r, u, up, k) ==
    IF get_redis_client(up) /\ k >= 1 THEN Smembers(r, u) ELSE {}

\* connections.discard(disconnecting_socket_id); return len(connections) > 0
OthersCall(r, u, c, up, k) == Cardinality(ListCall(r, u, up, k) \ {c}) > 0

\* setex(key, 30, "verified")
MarkCall(v, u, t, up, k) ==
    IF get_redis_client(up) /\ k >= 1 THEN set_user_verification_received(v, u, t) ELSE v

\* delete(key)
ClearCall(v, u, up, k) ==
    IF get_redis_client(up) /\ k >= 1 THEN clear_user_verification(v, u) ELSE v

\* bool(exists(key)); False in the except branch and without a client
VerifiedCall(v, u, up, k) ==
    get_redis_client(up) /\ k >= 1 /\ has_user_been_verified(v, u)

\* A command of the call raised: Redis stopped before answering them all.
Failing(op, u, c, k) == redisUp /\ k < Issued(op, reg, u, c)

\* What the caller gets: the value returned, or the exception of a command
\* that no except clause caught.  Redis has stopped if a command failed.
Answer(op, u, c, k, conns, flag) ==
    /\ result' = [op |-> op, user |-> u, sid |-> c, nth |-> 1 - result.nth,
                  up |-> redisUp,
                  answered |-> IF Failing(op, u, c, k) THEN k ELSE Issued(op, reg, u, c),
                  raised |-> Failing(op, u, c, k) /\ op \notin Guarded,
                  conns |-> conns, flag |-> flag]
    /\ redisUp' = (redisUp /\ ~Failing(op, u, c, k))

CallTrack(u, c, k) ==
    /\ reg' = TrackCall(reg, u, c, now, redisUp, k)
    /\ Answer("track", u, c, k, {}, FALSE)
    /\ UNCHANGED <<Clock, ver, lastMarked, calls, Database, groups, conn, pc, h, out, tasks>>

CallUntrack(u, c, k) ==
    /\ reg' = UntrackCall(reg, u, c, redisUp, k)
    /\ Answer("untrack", u, c, k, {}, FALSE)
    /\ UNCHANGED <<Clock, ver, lastMarked, calls, Database, groups, conn, pc, h, out, tasks>>

CallList(u, k) ==
    /\ Answer("list", u, "", k, ListCall(reg, u, redisUp, k), FALSE)
    /\ UNCHANGED <<Clock, reg, ver, lastMarked, calls, Database, groups, conn, pc, h, out, tasks>>

CallOthers(u, c, k) ==
    /\ Answer("others", u, c, k, {}, OthersCall(reg, u, c, redisUp, k))
    /\ UNCHANGED <<Clock, reg, ver, lastMarked, calls, Database, groups, conn, pc, h, out, tasks>>

CallMark(u, k) ==
    /\ ver' = MarkCall(ver, u, now, redisUp, k)
    /\ Answer("mark", u, "", k, {}, FALSE)
    /\ UNCHANGED <<Clock, reg, lastMarked, calls, Database, groups, conn, pc, h, out, tasks>>

CallClear(u, k) ==
    /\ ver' = ClearCall(ver, u, redisUp, k)
    /\ Answer("clear", u, "", k, {}, FALSE)
    /\ UNCHANGED <<Clock, reg, lastMarked, calls, Database, groups, conn, pc, h, out, tasks>>

CallVerified(u, k) ==
    /\ Answer("verified", u, "", k, {}, VerifiedCall(ver, u, redisUp, k))
    /\ UNCHANGED <<Clock, reg, ver, lastMarked, calls, Database, groups, conn, pc, h, out, tasks>>

----------------------------------------------------------------------------
(* Specifications *)

\* connect and disconnect, and the return of any handler
ConnHandlers(c) ==
    \/ \E tok \in Tokens : ConnectBegin(c, tok)
    \/ TrackSadd(c)
    \/ TrackExpire(c)
    \/ ConnectAccept(c)
    \/ DisconnectBegin(c)
    \/ UntrackSrem(c)
    \/ UntrackScard(c)
    \/ UntrackDelete(c)
    \/ HandlerReturn(c)

\* room.join and room.leave, a statement of theirs raising included
RoomHandlers(c) ==
    \/ \E code \in DataCodes : JoinBegin(c, code)
    \/ JoinQuery(c)
    \/ JoinTouch(c)
    \/ JoinGroup(c)
    \/ JoinPresence(c)
    \/ JoinEmitResult(c)
    \/ JoinFault(c)
    \/ \E code \in DataCodes : LeaveBegin(c, code)
    \/ LeaveQuery(c)
    \/ LeaveTouch(c)
    \/ LeaveGroup(c)
    \/ LeavePresence(c)
    \/ LeaveFault(c)

\* All four handlers on the rooms there are, with Redis up.
Next ==
    \/ \E c \in Conns : ConnHandlers(c)
    \/ \E c \in Conns : RoomHandlers(c)
    \/ \E d \in Durations : Advance(d)

Spec == Init /\ [][Next]_vars

\* connect and disconnect with Redis going down and coming back.  room.join
\* and room.leave neither read nor write what connect and disconnect do, bar
\* the sid being open, and are left out.
NextStore ==
    \/ \E c \in Conns : ConnHandlers(c)
    \/ \E d \in Durations : Advance(d)
    \/ StoreDown
    \/ StoreUp

SpecStore == Init /\ [][NextStore]_vars

\* The registry's and the flags' functions, called one after the other.
NextRegistry ==
    \/ \E u \in UserIds, c \in Conns : Track(u, c)
    \/ \E u \in UserIds, c \in Conns : Untrack(u, c)
    \/ \E u \in UserIds : MarkVerified(u)
    \/ \E u \in UserIds : ClearVerification(u)
    \/ \E d \in Durations : Advance(d)

SpecRegistry == Init /\ [][NextRegistry]_vars

\* connect, room.join and room.leave, none of whose statements raises, with
\* Redis going down and coming back at any moment, in less time than a token
\* or a key takes to expire.
DegradedHandlers(c) ==
    \/ \E tok \in Tokens : ConnectBegin(c, tok)
    \/ TrackSadd(c)
    \/ TrackExpire(c)
    \/ ConnectAccept(c)
    \/ HandlerReturn(c)
    \/ \E code \in DataCodes : JoinBegin(c, code)
    \/ JoinQuery(c)
    \/ JoinTouch(c)
    \/ JoinGroup(c)
    \/ JoinPresence(c)
    \/ JoinEmitResult(c)
    \/ \E code \in DataCodes : LeaveBegin(c, code)
    \/ LeaveQuery(c)
    \/ LeaveTouch(c)
    \/ LeaveGroup(c)
    \/ LeavePresence(c)

NextDegraded ==
    \/ \E c \in Conns : DegradedHandlers(c)
    \/ StoreDown
    \/ StoreUp

SpecDegraded == Init /\ [][NextDegraded]_vars

\* Connections joining and leaving the rooms of a database that gets a
\* second room: connect, room.join and room.leave with the store up, and
\* POST /api/room.create.
NextRooms ==
    \/ \E c \in Conns : DegradedHandlers(c)
    \/ \E u \in UserIds : RoomCreate(u)

SpecRooms == Init /\ [][NextRooms]_vars

\* A client that retries: its connection comes back under the sid it had,
\* without a disconnect having been handled, and connect is dispatched for
\* that sid once more; it sends room.join again for a room it is in.
Reconnect(c) ==
    /\ conn[c].st = "open" /\ pc[c] = "idle"
    /\ conn' = [conn EXCEPT ![c].st = "new"]
    /\ UNCHANGED <<Clock, redisUp, Registry, Database, groups, pc, h, out, tasks>>

RetryHandlers(c) ==
    \/ \E tok \in Tokens : ConnectBegin(c, tok)
    \/ TrackSadd(c)
    \/ TrackExpire(c)
    \/ ConnectAccept(c)
    \/ HandlerReturn(c)
    \/ \E code \in DataCodes : JoinBegin(c, code)
    \/ JoinQuery(c)
    \/ JoinTouch(c)
    \/ JoinGroup(c)
    \/ JoinPresence(c)
    \/ JoinEmitResult(c)
    \/ Reconnect(c)

NextRetry == \E c \in Conns : RetryHandlers(c)

SpecRetry == Init /\ [][NextRetry]_vars

----------------------------------------------------------------------------
(* Delayed functions: helpers/ws.py emit_function_after_delay *)

\* How many background tasks are started.
MaxTasks == 2

\* delay_seconds: float = 1.0
DEFAULT_DELAY == 1

\* delay_seconds as passed: the default, the verification window.
Delays == {DEFAULT_DELAY, VERIFICATION_TTL}

\* function: one that returns, one that raises an Exception.
Functions == {"returns", "raises"}

\* A background task: the closure's function, args and delay_seconds, the
\* sid whose handler started it, when it was started; and what it has done:
\* how often and when it called the function, with which arguments, whether
\* its except clause logged an exception and whether one left the task.
NotCalled == <<>>

\* socketio.start_background_task(background_task, ...)
start_background_task(c, fn, args, delay, t) ==
    [by |-> c, function |-> fn, args |-> args, delay_seconds |-> delay, at |-> t,
     st |-> "sleeping", calls |-> 0, calledAt |-> None, passed |-> NotCalled,
     logged |-> FALSE, raised |-> FALSE]

\* try: function(*args)  except Exception: logging.error(...)
background_task(task, t) ==
    [task EXCEPT !.st = "ended", !.calls = @ + 1, !.calledAt = t,
                 !.passed = <<task.args>>,
                 !.logged = (task.function = "raises"),
                 !.raised = FALSE]

\* socketio.sleep(delay_seconds) has returned
Slept(task, t) == t >= task.at + task.delay_seconds

\* A handler of the open connection c calls
\* emit_function_after_delay(function, *args, delay_seconds=delay).
EmitFunctionAfterDelay(c, fn, args, delay) ==
    /\ conn[c].st = "open" /\ pc[c] = "idle"
    /\ Len(tasks) < MaxTasks
    /\ ticks < MaxAdvances
    /\ tasks' = Append(tasks, start_background_task(c, fn, args, delay, now))
    /\ UNCHANGED <<Clock, redisUp, Registry, Database, groups, conn, pc, h, out>>

\* a background task that does not sleep
BackgroundTaskAtOnce(i) ==
    /\ i \in DOMAIN tasks
    /\ tasks[i].st = "sleeping"
    /\ tasks' = [tasks EXCEPT ![i] = background_task(@, now)]
    /\ UNCHANGED <<Clock, redisUp, Registry, Database, groups, conn, pc, h, out>>

\* The i-th background task, its sleep over, calls the function.
BackgroundTask(i) ==
    /\ i \in DOMAIN tasks
    /\ tasks[i].st = "sleeping"
    /\ Slept(tasks[i], now)
    /\ tasks' = [tasks EXCEPT ![i] = background_task(@, now)]
    /\ UNCHANGED <<Clock, redisUp, Registry, Database, groups, conn, pc, h, out>>

\* A connection that comes and goes, handlers of its that schedule delayed
\* functions, time passing and the background tasks.
\* (the connections are user 2's, whose token outlives every Advance)
TaskConnections(c) ==
    \/ ConnectBegin(c, [present |-> TRUE, sig |-> TRUE, sub |-> "2", exp |-> 1209600])
    \/ TrackSadd(c)
    \/ TrackExpire(c)
    \/ ConnectAccept(c)
    \/ DisconnectBegin(c)
    \/ UntrackSrem(c)
    \/ UntrackScard(c)
    \/ UntrackDelete(c)
    \/ HandlerReturn(c)

NextTasks ==
    \/ TaskConnections("s1")
    \/ \E c \in Conns, fn \in Functions, args \in UserIds, delay \in Delays :
          EmitFunctionAfterDelay(c, fn, args, delay)
    \/ \E i \in 1..MaxTasks : BackgroundTask(i)
    \/ Advance(VERIFICATION_TTL)

\* gevent runs every greenlet that is ready, and time passes.
SpecTasks ==
    /\ Init /\ [][NextTasks]_vars
    /\ WF_vars(Advance(VERIFICATION_TTL))
    /\ \A i \in 1..MaxTasks : WF_vars(BackgroundTask(i))

----------------------------------------------------------------------------
(* Handlers behind the decorator: views/middleware.py require_room_by_code *)

\* wrapper(data) of an event the open connection c sends: user_id =
\* get_user_id_from_socket(); code = (data or {}).get("code"); without a
\* code, or without a room of that code, it returns; otherwise it calls
\* handler(room, user_id, data): pc "wrapped" is the handler's body.
RequireRoomByCode(c, code) ==
    /\ conn[c].st = "open" /\ pc[c] = "idle"
    /\ LET uid == get_user_id_from_socket(conn[c].token, now)
           room == IF code = "" THEN "" ELSE RoomByCode(code, rooms)
       IN  /\ h' = [h EXCEPT ![c] = [Start(c, "room.control.pause", uid)
                                        EXCEPT !.code = code, !.room = room]]
           /\ Goto(c, IF room = "" THEN "done" ELSE "wrapped")
    /\ out' = [out EXCEPT ![c] = <<>>]
    /\ UNCHANGED <<Clock, redisUp, Registry, Database, groups, conn, tasks>>

\* The handler's body returns.
WrappedHandler(c) ==
    /\ pc[c] = "wrapped"
    /\ h' = [h EXCEPT ![c].ret = TRUE]
    /\ Goto(c, "done")
    /\ UNCHANGED <<Clock, redisUp, Registry, Database, groups, conn, out, tasks>>

\* Accepted connections sending events to a decorated handler, while time
\* passes.
WrappedHandlers(c) ==
    \/ \E tok \in Tokens : ConnectBegin(c, tok)
    \/ TrackSadd(c)
    \/ TrackExpire(c)
    \/ ConnectAccept(c)
    \/ HandlerReturn(c)
    \/ \E code \in DataCodes : RequireRoomByCode(c, code)
    \/ WrappedHandler(c)

NextWrapped ==
    \/ \E c \in Conns : WrappedHandlers(c)
    \/ \E d \in Durations : Advance(d)

SpecWrapped == Init /\ [][NextWrapped]_vars

----------------------------------------------------------------------------
(* Every operation that writes or could write a user row *)

\* One connection's connect, disconnect, room.join and room.leave, faults
\* included, POST /api/room.create, a delayed function and time passing.
NextEverything ==
    \/ ConnHandlers("s1")
    \/ RoomHandlers("s1")
    \/ \E u \in UserIds : RoomCreate(u)
    \/ EmitFunctionAfterDelay("s1", "returns", 1, DEFAULT_DELAY)
    \/ \E i \in 1..MaxTasks : BackgroundTask(i)
    \/ Advance(VERIFICATION_TTL)

SpecEverything == Init /\ [][NextEverything]_vars

----------------------------------------------------------------------------
(* room.leave by members and by others *)

\* connect and room.leave of a connection, a statement of room.leave raising
\* included
LeaveHandlers(c) ==
    \/ \E tok \in Tokens : ConnectBegin(c, tok)
    \/ TrackSadd(c)
    \/ TrackExpire(c)
    \/ ConnectAccept(c)
    \/ HandlerReturn(c)
    \/ \E code \in DataCodes : LeaveBegin(c, code)
    \/ LeaveQuery(c)
    \/ LeaveTouch(c)
    \/ LeaveGroup(c)
    \/ LeavePresence(c)
    \/ LeaveFault(c)

\* room.join of a connection
JoinHandlers(c) ==
    \/ \E code \in DataCodes : JoinBegin(c, code)
    \/ JoinQuery(c)
    \/ JoinTouch(c)
    \/ JoinGroup(c)
    \/ JoinPresence(c)
    \/ JoinEmitResult(c)

\* Both connections send room.leave; s2 sends room.join as well, s1 never
\* does.
NextLeaves ==
    \/ \E c \in Conns : LeaveHandlers(c)
    \/ JoinHandlers("s2")
    \/ \E d \in Durations : Advance(d)

SpecLeaves == Init /\ [][NextLeaves]_vars

\* a statement of any handler raising
FaultHandlers(c) ==
    \/ ConnectFault(c)
    \/ DisconnectFault(c)
    \/ JoinBadData(c)
    \/ LeaveBadData(c)

\* All four handlers, any of which may raise at any statement.
NextFaults ==
    \/ Next
    \/ \E c \in Conns : FaultHandlers(c)

SpecFaults == Init /\ [][NextFaults]_vars

\* The functions of redis.py called one after the other while Redis stops
\* answering, at the ping or at any command, and answers again.
NextCalls ==
    \/ \E u \in UserIds, c \in Conns, k \in Answered(2) : CallTrack(u, c, k)
    \/ \E u \in UserIds, c \in Conns, k \in Answered(MaxCommands) : CallUntrack(u, c, k)
    \/ \E u \in UserIds, k \in Answered(1) : CallList(u, k)
    \/ \E u \in UserIds, c \in Conns, k \in Answered(1) : CallOthers(u, c, k)
    \/ \E u \in UserIds, k \in Answered(1) : CallMark(u, k)
    \/ \E u \in UserIds, k \in Answered(1) : CallClear(u, k)
    \/ \E u \in UserIds, k \in Answered(1) : CallVerified(u, k)
    \/ StoreDown
    \/ StoreUp

SpecCalls == Init /\ [][NextCalls]_vars

----------------------------------------------------------------------------
(* Vocabulary of the properties *)

\* c's handler `name` has run to its end and has not yet returned.
Done(c, name) == pc[c] = "done" /\ h[c].handler = name

\* c's handler `name` takes a step (HandlerReturn, which clears h, is none).
StepOf(c, name) == h'[c].handler = name /\ pc'[c] # pc[c]

\* A sid's connect or disconnect is between its Redis commands.
InRegistryCall(c) ==
    pc[c] \in {"track_sadd", "track_expire", "untrack_srem", "untrack_scard", "untrack_delete"}

\* The user a token was issued to ("sub": str(user.id)), None if to none.
UserOf(tok) ==
    IF \E u \in UserIds : tok.sub = ToString(u)
    THEN CHOOSE u \in UserIds : tok.sub = ToString(u)
    ELSE None

\* d was tracked for user u (its connect got through track_socket_connection)
\* and its disconnect has not run.
TrackedNotUntracked(d, u) ==
    \/ /\ conn[d].st = "new" /\ h[d].handler = "connect" /\ h[d].user_id = u
       /\ pc[d] \in {"track_ret", "done"}
    \/ /\ conn[d].st = "open" /\ UserOf(conn[d].token) = u
       /\ h[d].handler # "disconnect"

\* What a credential is worth at time t: signed, not expired, a user's.
Usable(tok, t) == tok.present /\ tok.sig /\ t < tok.exp /\ UserOf(tok) \in UserIds

IsMember(c) == \E u \in UserIds : c \in reg[u].members

Events(c, name) == {i \in 1..Len(out[c]) : out[c][i].ev = name}

----------------------------------------------------------------------------
(* C1 *)

\* C1: with Redis up and before any key or token can have expired, once a
\* disconnect of c has untracked c and no track or untrack is under way,
\* check_user_other_connections(u, c) is true iff some other connection of u
\* was tracked and not untracked.
C1_UntrackSeesOthers ==
    \A c \in Conns :
        (/\ Done(c, "disconnect") /\ ~Falsy(h[c].user_id)
         /\ now = 0
         /\ \A d \in Conns : ~InRegistryCall(d))
        => (check_user_other_connections(reg, h[c].user_id, c)
              <=> \E d \in Conns \ {c} : TrackedNotUntracked(d, h[c].user_id))

----------------------------------------------------------------------------
(* C2 *)

\* C2: called one after the other, track and untrack keep "the key exists"
\* the same as "the set is not empty", and untrack(u, c) on a set with no
\* member other than c leaves u's key absent.
C2_EmptyMeansAbsent ==
    /\ [](\A u \in UserIds : reg[u].present <=> reg[u].members # {})
    /\ [][\A u \in UserIds, c \in Conns :
            (Untrack(u, c) /\ reg[u].members \subseteq {c}) => ~reg'[u].present]_vars

\* track(1, s1) then untrack(1, s1) have run and user 1 has no key, while
\* user 2's tracked connection keeps its key.
C2_Witness ==
    /\ calls = <<[op |-> "track", user |-> 1, sid |-> "s1"],
                 [op |-> "untrack", user |-> 1, sid |-> "s1"]>>
    /\ ~reg[1].present
    /\ reg[2].members = {"s2"}

----------------------------------------------------------------------------
(* C3 *)

\* C3: once the disconnect handler of c has run, c is in no user's set.
C3_DisconnectUntracks ==
    \A c \in Conns : Done(c, "disconnect") => ~IsMember(c)

----------------------------------------------------------------------------
(* C4 *)

\* C4 as stated: a connect without a usable credential is refused and adds
\* nothing; a connect with one is accepted and its sid is in the set of the
\* token's subject when the handler has run.
C4_ConnectRegisters ==
    \A c \in Conns :
        Done(c, "connect") =>
            /\ h[c].ret <=> ~Falsy(h[c].user_id)
            /\ ~h[c].ret => ~IsMember(c)
            /\ h[c].ret => c \in reg[UserOf(conn[c].token)].members

\* C4 as amended: the connect is refused, with the registry untouched, unless
\* the token is signed, unexpired and names a user, and is accepted then; a
\* refused sid is in no set; the SADD of an accepted connect, when Redis
\* answers it, puts the sid into the set of the token's subject and changes no
\* other user's set; a sid is only ever in the set of its token's subject.
C4_ConnectDecision ==
    /\ [][\A c \in Conns :
            (conn[c].st = "new" /\ pc[c] = "idle" /\ StepOf(c, "connect")) =>
               LET tok == conn'[c].token
               IN  /\ reg' = reg
                   /\ IF Usable(tok, now)
                      THEN h'[c].user_id = UserOf(tok) /\ pc'[c] # "done"
                      ELSE pc'[c] = "done" /\ ~h'[c].ret]_vars
    /\ [](\A c \in Conns :
            /\ Done(c, "connect") => (h[c].ret <=> ~Falsy(h[c].user_id))
            /\ pc[c] \in {"track_sadd", "track_expire", "track_ret"}
                  => h[c].user_id = UserOf(conn[c].token) /\ h[c].user_id \in UserIds
            /\ (conn[c].st = "refused" \/ (Done(c, "connect") /\ ~h[c].ret))
                  => ~IsMember(c)
            /\ conn[c].st \in {"new", "open"} =>
                  \A u \in UserIds : c \in reg[u].members => u = UserOf(conn[c].token))
    /\ [][\A c \in Conns :
            (pc[c] = "track_sadd" /\ pc'[c] # pc[c] /\ redisUp) =>
               /\ c \in reg'[UserOf(conn[c].token)].members
               /\ \A u \in UserIds \ {UserOf(conn[c].token)} : reg'[u] = reg[u]]_vars

\* s1 was accepted for user 2 and is in user 2's set and not in user 1's;
\* s2 was refused.
C4_Witness ==
    /\ Done("s1", "connect") /\ h["s1"].ret
    /\ "s1" \in reg[2].members /\ "s1" \notin reg[1].members
    /\ conn["s2"].st = "refused"

----------------------------------------------------------------------------
(* C5 *)

\* The events of a handler that answered with room.error to its sid alone.
OnlyRoomError(c) ==
    /\ Len(out[c]) = 1
    /\ out[c][1].ev = "room.error"
    /\ out[c][1].to = c /\ out[c][1].recips = {c}

\* C5: a room.join whose code is missing or is no room's code ends with one
\* room.error to the requesting sid and nothing else emitted, and no step of
\* it changes a group or a user row.
C5_JoinRejected ==
    /\ [](\A c \in Conns :
            (Done(c, "room.join") /\ h[c].code \notin rooms) => OnlyRoomError(c))
    /\ [][\A c \in Conns :
            (StepOf(c, "room.join") /\ h'[c].code \notin rooms)
                => UNCHANGED <<groups, users>>]_vars

\* s1, joined to r1 earlier, asked to join a code no room has, after time
\* has passed, and got "Room not found".
C5_Witness ==
    /\ Done("s1", "room.join") /\ h["s1"].code = "zz"
    /\ out["s1"] = <<RoomError("s1", "Room not found")>>
    /\ "s1" \in groups["r1"]
    /\ now > 0

----------------------------------------------------------------------------
(* C6 *)

\* What a join of room r by c is to emit: one presence.update to r's group
\* and no other, one user.join.result (ok, r's code) to c alone, no more.
JoinedEvents(c, r) ==
    /\ Len(out[c]) = 2
    /\ \E i \in Events(c, "presence.update") :
          /\ out[c][i].room = r /\ out[c][i].to = ""
          /\ Events(c, "presence.update") = {i}
    /\ \E i \in Events(c, "user.join.result") :
          /\ out[c][i] = JoinResult(c, r)
          /\ Events(c, "user.join.result") = {i}
    /\ Events(c, "room.error") = {}

----------------------------------------------------------------------------
(* C7 *)

\* The sids of S have each run a room.join for room r to its end.
AllJoined(S, r) == \A c \in S : Done(c, "room.join") /\ h[c].code = r

\* Each sid of S got its own user.join.result, and some presence.update of
\* theirs went out when all of S were in the group.
JoinsServed(S, r) ==
    /\ \A c \in S : \E i \in 1..Len(out[c]) : out[c][i] = JoinResult(c, r)
    /\ \E c \in S : \E i \in Events(c, "presence.update") :
          out[c][i].room = r /\ S \subseteq out[c][i].recips

----------------------------------------------------------------------------
(* C8 *)

\* C8: a room.leave with no code, with no valid credential or with a code no
\* room has emits nothing, and no step of it changes a group, a user row, the
\* registry or the flags.
C8_LeaveNoOp ==
    /\ [](\A c \in Conns :
            (Done(c, "room.leave") /\ (h[c].code \notin rooms \/ Falsy(h[c].user_id)))
                => out[c] = <<>>)
    /\ [][\A c \in Conns :
            (StepOf(c, "room.leave") /\ (h'[c].code \notin rooms \/ Falsy(h'[c].user_id)))
                => UNCHANGED <<groups, users, reg, ver>>]_vars

\* s1, a member of r1, sent room.leave for r1 after its token had expired:
\* nothing was emitted and it is still a member.
C8_Witness ==
    /\ Done("s1", "room.leave") /\ h["s1"].code = "r1" /\ Falsy(h["s1"].user_id)
    /\ "s1" \in groups["r1"]
    /\ out["s1"] = <<>>

----------------------------------------------------------------------------
(* C9 *)

\* C9: has_user_been_verified(u) is true right after
\* set_user_verification_received(u), false right after
\* clear_user_verification(u), false when u was never marked or 30 seconds
\* have passed since u was last marked; marking or clearing u leaves every
\* other user's answer as it was.
C9_VerificationWindow ==
    /\ [](\A u \in UserIds :
            has_user_been_verified(ver, u)
                => lastMarked[u] # None /\ now < lastMarked[u] + 30)
    /\ [][\A u \in UserIds :
            /\ MarkVerified(u) => has_user_been_verified(ver', u)
            /\ ClearVerification(u) => ~has_user_been_verified(ver', u)
            /\ (MarkVerified(u) \/ ClearVerification(u)) =>
                  \A v \in UserIds \ {u} :
                      has_user_been_verified(ver', v) = has_user_been_verified(ver, v)]_vars

\* User 1 was marked at 0 and is no longer verified at 30; user 2, marked at
\* 30, is.
C9_Witness ==
    /\ now = 30
    /\ lastMarked[1] = 0 /\ ~has_user_been_verified(ver, 1)
    /\ lastMarked[2] = 30 /\ has_user_been_verified(ver, 2)

----------------------------------------------------------------------------
(* C10 *)

\* C10: no step of the disconnect handler changes a user row, a group or a
\* flag, and the handler emits nothing.
C10_DisconnectFrame ==
    /\ [](\A c \in Conns : Done(c, "disconnect") => out[c] = <<>>)
    /\ [][\A c \in Conns :
            StepOf(c, "disconnect")
                => UNCHANGED <<users, groups, ver>> /\ out'[c] = <<>>]_vars

\* s1 of user 2, a member of r1, has disconnected: its sid is out of the
\* registry, user 2 is still active and nothing was emitted.
C10_Witness ==
    /\ Done("s1", "disconnect") /\ h["s1"].user_id = 2
    /\ ~IsMember("s1")
    /\ "s1" \in groups["r1"]
    /\ users[2].active
    /\ out["s1"] = <<>>

----------------------------------------------------------------------------
(* C11 *)

\* C11: in every state the registry can be in, track(u, c) run twice leaves
\* what running it once leaves, with c a member and the key's deadline 24 h
\* (86400 s) ahead; untrack(u, c) run twice leaves what running it once
\* leaves, and untrack of a sid that is no member leaves the registry as it
\* is.  A track of the pair just tracked, or an untrack of the pair just
\* untracked, changes no set, and the track puts the deadline 24 h ahead.
C11_Idempotent ==
    /\ [](\A u \in UserIds, c \in Conns :
            LET once == track_socket_connection(reg, u, c, now)
                gone == remove_socket_connection(reg, u, c)
            IN  /\ track_socket_connection(once, u, c, now) = once
                /\ once[u].members = reg[u].members \cup {c}
                /\ once[u].expireAt = now + 86400
                /\ remove_socket_connection(gone, u, c) = gone
                /\ c \notin reg[u].members => gone = reg)
    /\ [][\A u \in UserIds, c \in Conns :
            LET last == IF calls = <<>> THEN [op |-> "", user |-> None, sid |-> ""]
                        ELSE calls[Len(calls)]
            IN  /\ (Track(u, c) /\ last = [op |-> "track", user |-> u, sid |-> c]
                        /\ reg[u].present)
                    => /\ \A v \in UserIds : reg'[v].members = reg[v].members
                       /\ reg'[u].expireAt = now + 86400
                /\ (Untrack(u, c) /\ last = [op |-> "untrack", user |-> u, sid |-> c])
                    => reg' = reg]_vars

\* track(1, s1) ran twice, the second time 30 s after the first: the set is
\* {s1} and its deadline was moved to 30 s + 24 h.
C11_Witness ==
    /\ calls = <<[op |-> "track", user |-> 1, sid |-> "s1"],
                 [op |-> "track", user |-> 1, sid |-> "s1"]>>
    /\ now = 30
    /\ reg[1].members = {"s1"} /\ reg[1].expireAt = 30 + 86400

----------------------------------------------------------------------------
(* C12 *)

\* C12: whenever no track of user u is between its SADD and its EXPIRE, a
\* set of u that exists has a deadline.
C12_SetsCarryTtl ==
    \A u \in UserIds :
        (reg[u].present /\ \A c \in Conns : ~(pc[c] = "track_expire" /\ h[c].user_id = u))
        => reg[u].expireAt # None

----------------------------------------------------------------------------
(* C13 *)

\* The step is a call of a redis.py function, and the call found Redis
\* unavailable (no client) or had a command fail.
DegradedCall ==
    /\ result' # result
    /\ \/ ~result'.up
       \/ result'.answered < Issued(result'.op, reg, result'.user, result'.sid)

\* What the commands answered before the failure have done to the registry.
AnsweredEffect ==
    LET r == result'
    IN  IF ~r.up \/ r.answered = 0 THEN reg
        ELSE IF r.op = "track" THEN Sadd(reg, r.user, r.sid)
        ELSE IF r.op = "untrack" THEN Srem(reg, r.user, r.sid)
        ELSE reg

\* What such calls do.  Every one returns its default (the empty set, False)
\* and leaves the flags alone; with `partial`, a track or untrack has had the
\* effect of the commands answered before the one that failed, without it
\* the call must have had no effect.
DegradedCalls(partial) ==
    DegradedCall =>
        /\ result'.conns = {} /\ ~result'.flag
        /\ ver' = ver
        /\ reg' = IF partial THEN AnsweredEffect ELSE reg

----------------------------------------------------------------------------
(* C14 *)

\* What a finished room.join has done, told from the credential, the data
\* and the rooms alone.
JoinOutcome(c) ==
    IF ~Usable(conn[c].token, now)
    THEN out[c] = <<RoomError(c, "Authentication required")>>
    ELSE IF h[c].code = ""
    THEN out[c] = <<RoomError(c, "Room code required")>>
    ELSE IF h[c].code \notin rooms
    THEN out[c] = <<RoomError(c, "Room not found")>>
    ELSE JoinedEvents(c, h[c].code) /\ c \in groups[h[c].code]

\* The same of a finished room.leave.
LeaveOutcome(c) ==
    IF ~Usable(conn[c].token, now) \/ h[c].code \notin rooms
    THEN out[c] = <<>>
    ELSE /\ c \notin groups[h[c].code]
         /\ Len(out[c]) = 1
         /\ out[c][1].ev = "presence.update" /\ out[c][1].room = h[c].code

\* C14: with Redis going down and coming back at any moment, connect accepts
\* exactly the usable credentials and emits nothing, room.join and room.leave
\* end as the credential, the data and the rooms alone say, their updates of
\* the user row are those of the code, and Redis going down or coming back
\* changes no connection, group, row, event or handler.
C14_StoreInvisible ==
    /\ [](\A c \in Conns :
            /\ Done(c, "connect")
                  => (h[c].ret <=> Usable(conn[c].token, now)) /\ out[c] = <<>>
            /\ Done(c, "room.join") => JoinOutcome(c)
            /\ Done(c, "room.leave") => LeaveOutcome(c))
    /\ [][redisUp' # redisUp
            => UNCHANGED <<conn, groups, users, rooms, out, pc, h>>]_vars
    /\ [][\A c \in Conns :
            /\ StepOf(c, "connect") => UNCHANGED <<groups, users, rooms>>
            /\ (pc[c] = "join_touch" /\ pc'[c] # pc[c])
                  => users' = TouchActive(users, h[c].user_id, now)
            /\ (pc[c] = "leave_touch" /\ pc'[c] # pc[c])
                  => users' = TouchSeen(users, h[c].user_id, now)]_vars

\* s1 was accepted while Redis was down and is in no set, s2 is registered;
\* s1 has joined r1, which s2 is in, with the events of a join, and Redis is
\* down.
C14_Witness ==
    /\ ~redisUp
    /\ Done("s1", "room.join") /\ JoinedEvents("s1", "r1")
    /\ ~IsMember("s1")
    /\ conn["s2"].st = "open" /\ IsMember("s2") /\ "s2" \in groups["r1"]

----------------------------------------------------------------------------
(* C15 *)

\* A statement of c's handler raises in this step.
Raises(c) == h'[c].fault /\ ~h[c].fault

----------------------------------------------------------------------------
(* C16 *)

\* The sids that were accepted and whose disconnect has not returned.
Connected == {c \in Conns : conn[c].st = "open"}

----------------------------------------------------------------------------
(* C17 *)

\* c's handler moves from statement `from` to statement `to`, `from` not
\* having raised.
Moves(c, from, to) == pc[c] = from /\ pc'[c] = to /\ ~h'[c].fault

\* C17: a room.join none of whose statements raises goes, after the room was
\* found, through these steps and no others, in this order: the user row is
\* updated (last_seen, active) and nothing else; the sid enters the group and
\* nothing else; presence.update goes to the group, the sid among its
\* recipients; user.join.result goes to the sid.  A join that succeeded has
\* emitted the presence.update that reached the sid first and its
\* user.join.result second.
C17_JoinOrder ==
    /\ [][\A c \in Conns :
            /\ (pc'[c] \in {"join_touch", "join_group", "join_presence", "join_result"}
                  /\ pc'[c] # pc[c])
                  => \/ Moves(c, "join_query", "join_touch")
                     \/ Moves(c, "join_touch", "join_group")
                     \/ Moves(c, "join_group", "join_presence")
                     \/ Moves(c, "join_presence", "join_result")
            /\ Moves(c, "join_touch", "join_group")
                  => /\ users' = TouchActive(users, h[c].user_id, now)
                     /\ UNCHANGED <<groups, out>>
            /\ Moves(c, "join_group", "join_presence")
                  => /\ groups' = join_room(groups, h[c].room, c)
                     /\ UNCHANGED <<users, out>>
            /\ Moves(c, "join_presence", "join_result")
                  => /\ c \in groups[h[c].room]
                     /\ out'[c] = Append(out[c], PresenceUpdate(h[c].room, groups))
                     /\ UNCHANGED <<users, groups>>
            /\ Moves(c, "join_result", "done")
                  => /\ out'[c] = Append(out[c], JoinResult(c, h[c].room))
                     /\ UNCHANGED <<users, groups>>]_vars
    /\ [](\A c \in Conns :
            (Done(c, "room.join") /\ h[c].ret) =>
                /\ Len(out[c]) = 2
                /\ out[c][1].ev = "presence.update" /\ c \in out[c][1].recips
                /\ out[c][2] = JoinResult(c, h[c].room)
                /\ c \in groups[h[c].room]
                /\ users[h[c].user_id].active)

\* 30 s after the start s1 of user 2 joined r1: the row of user 2 carries
\* that time, and the presence.update, sent first, reached s1 itself.
C17_Witness ==
    /\ Done("s1", "room.join") /\ h["s1"].ret /\ h["s1"].user_id = 2
    /\ now = 30 /\ users[2].last_seen = 30
    /\ out["s1"][1].ev = "presence.update" /\ "s1" \in out["s1"][1].recips
    /\ out["s1"][2].ev = "user.join.result"

----------------------------------------------------------------------------
(* C18 *)

\* C18: a room.leave none of whose statements raises goes, after the room
\* was found, through these steps in this order: the user's last_seen is
\* updated, active and everything else staying as it was; the sid leaves
\* the group; presence.update goes to the group as it then is, so to every
\* remaining member and not to the sid.
C18_LeaveOrder ==
    /\ [][\A c \in Conns :
            /\ (pc'[c] \in {"leave_touch", "leave_group", "leave_presence"}
                  /\ pc'[c] # pc[c])
                  => \/ Moves(c, "leave_query", "leave_touch")
                     \/ Moves(c, "leave_touch", "leave_group")
                     \/ Moves(c, "leave_group", "leave_presence")
            /\ Moves(c, "leave_touch", "leave_group")
                  => /\ users' = [users EXCEPT ![h[c].user_id].last_seen = now]
                     /\ UNCHANGED <<groups, out>>
            /\ Moves(c, "leave_group", "leave_presence")
                  => /\ groups' = [groups EXCEPT ![h[c].room] = @ \ {c}]
                     /\ UNCHANGED <<users, out>>
            /\ Moves(c, "leave_presence", "done")
                  => /\ c \notin groups[h[c].room]
                     /\ out'[c] = <<PresenceUpdate(h[c].room, groups)>>
                     /\ UNCHANGED <<users, groups>>]_vars
    /\ [](\A c \in Conns :
            (Done(c, "room.leave") /\ h[c].ret) =>
                /\ Len(out[c]) = 1
                /\ out[c][1].ev = "presence.update" /\ out[c][1].room = h[c].room
                /\ c \notin out[c][1].recips
                /\ c \notin groups[h[c].room])

\* s1 and s2 were in r1 and s1 has left: its presence.update went to s2 and
\* not to s1, and s2 is still a member.
C18_Witness ==
    /\ Done("s1", "room.leave") /\ h["s1"].ret /\ h["s1"].room = "r1"
    /\ out["s1"] = <<[ev |-> "presence.update", to |-> "", room |-> "r1",
                      recips |-> {"s2"}, info |-> ""]>>
    /\ groups["r1"] = {"s2"}

----------------------------------------------------------------------------
(* C19 *)

\* C19: whatever a handler has emitted so far, a statement of it having
\* raised or not: a room.error comes from room.join and goes to the sid that
\* sent the join and to no one else; connect and disconnect emit nothing;
\* room.leave emits no room.error and nothing to its own sid, by address or
\* through a group.
C19_ErrorsOnlyFromJoin ==
    \A c \in Conns :
        /\ \A i \in Events(c, "room.error") :
              /\ h[c].handler = "room.join"
              /\ out[c][i].to = c /\ out[c][i].recips = {c}
        /\ h[c].handler \in {"connect", "disconnect"} => out[c] = <<>>
        /\ h[c].handler = "room.leave" =>
              \A i \in 1..Len(out[c]) :
                  /\ out[c][i].ev = "presence.update"
                  /\ out[c][i].to # c /\ c \notin out[c][i].recips

\* room.leave of s1 raised and emitted nothing while room.join of s2, which
\* raised too, answered s2 with room.error.
C19_Witness ==
    /\ Done("s1", "room.leave") /\ h["s1"].fault /\ out["s1"] = <<>>
    /\ Done("s2", "room.join") /\ h["s2"].fault
    /\ out["s2"] = <<RoomError("s2", "Failed to join room")>>

----------------------------------------------------------------------------
(* C20 *)

\* C20: a connection's memberships are per room.  The join_room of a
\* room.join changes the group of the room joined, by adding the sid, and no
\* other group; the leave_room of a room.leave changes the group of the room
\* left, by removing the sid, and no other group; and a sid is taken out of
\* a group by nothing but its own room.leave for that room.
C20_MembershipPerRoom ==
    [][\A c \in Conns :
          /\ Moves(c, "join_group", "join_presence")
                => groups' = [groups EXCEPT ![h[c].room] = @ \cup {c}]
          /\ Moves(c, "leave_group", "leave_presence")
                => groups' = [groups EXCEPT ![h[c].room] = @ \ {c}]
          /\ \A r \in RoomCodes :
                (c \in groups[r] /\ c \notin groups'[r])
                   => Moves(c, "leave_group", "leave_presence") /\ h[c].room = r]_vars

\* s2, a member of r1's group, has joined r2 and is in both groups; s1, a
\* member of r2's group, has left r1 and is in r2's group only.
C20_Witness ==
    /\ Done("s2", "room.join") /\ h["s2"].ret /\ h["s2"].room = "r2"
    /\ "s2" \in groups["r1"] /\ "s2" \in groups["r2"]
    /\ Done("s1", "room.leave") /\ h["s1"].ret /\ h["s1"].room = "r1"
    /\ "s1" \notin groups["r1"] /\ "s1" \in groups["r2"]

----------------------------------------------------------------------------
(* C21 *)

\* C21: a retry adds nothing twice.  The join_room of a room.join sent by a
\* sid that is in the room's group already leaves every group as it is; the
\* SADD of a connect for a sid that is in the user's set already leaves the
\* members of every set as they are; and once either handler has got past
\* that statement the sid is in the group, or in the set.
C21_RetryAddsNothing ==
    /\ [][\A c \in Conns :
            /\ (Moves(c, "join_group", "join_presence") /\ c \in groups[h[c].room])
                  => groups' = groups
            /\ (Moves(c, "track_sadd", "track_expire")
                   /\ c \in reg[h[c].user_id].members)
                  => \A u \in UserIds : reg'[u].members = reg[u].members]_vars
    /\ [](\A c \in Conns :
            /\ (h[c].handler = "room.join" /\ pc[c] \in {"join_presence", "join_result"})
                  => c \in groups[h[c].room]
            /\ (h[c].handler = "connect" /\ pc[c] = "track_expire")
                  => c \in reg[h[c].user_id].members)

\* s1, which joined r1 as user 1, has come back under its sid and been
\* accepted and tracked as user 1 again: user 1's set is {s1} as after one
\* connect.  s2, in r1's group, is in a room.join for r1 whose join_room has
\* run: the group is {s1, s2}.
C21_Witness ==
    /\ Done("s1", "connect") /\ h["s1"].ret /\ h["s1"].user_id = 1
    /\ reg[1].members = {"s1"} /\ reg[2].members = {"s2"}
    /\ h["s2"].handler = "room.join" /\ pc["s2"] = "join_presence"
    /\ h["s2"].room = "r1" /\ groups["r1"] = {"s1", "s2"}

----------------------------------------------------------------------------
(* C22 *)

\* C22: a background task calls its function at most once, and when it has
\* ended it has called it once, delay_seconds or more after it was started,
\* with the arguments of the emit_function_after_delay call, and no
\* exception has left the task: one the function raised was logged.  Nothing
\* takes a task away or changes one except its own call of the function.
\* Every task started ends, whatever happens to the connection that started
\* it.
C22_DelayedOnce ==
    /\ [](\A i \in DOMAIN tasks :
            LET task == tasks[i]
            IN  /\ task.calls <= 1
                /\ task.st = "sleeping" => task.calls = 0 /\ task.passed = NotCalled
                /\ task.st = "ended" =>
                      /\ task.calls = 1
                      /\ task.calledAt >= task.at + task.delay_seconds
                      /\ task.passed = <<task.args>>
                      /\ ~task.raised
                      /\ task.logged <=> task.function = "raises")
    /\ [][/\ Len(tasks') >= Len(tasks)
          /\ \A i \in DOMAIN tasks :
                \/ tasks'[i] = tasks[i]
                \/ /\ tasks[i].st = "sleeping" /\ tasks'[i].st = "ended"
                   /\ tasks'[i].by = tasks[i].by
                   /\ tasks'[i].function = tasks[i].function
                   /\ tasks'[i].args = tasks[i].args
                   /\ tasks'[i].at = tasks[i].at]_vars
    /\ \A i \in 1..MaxTasks :
          (Len(tasks) >= i) ~> (Len(tasks) >= i /\ tasks[i].st = "ended")

\* A function that raises, scheduled by s1 for user 1 with the default
\* delay, was called once, 30 s later, after s1 had disconnected; the
\* exception was logged.
C22_Witness ==
    /\ Len(tasks) >= 1
    /\ tasks[1].by = "s1" /\ tasks[1].function = "raises" /\ tasks[1].args = 1
    /\ tasks[1].delay_seconds = 1 /\ tasks[1].at = 0
    /\ tasks[1].st = "ended" /\ tasks[1].calls = 1 /\ tasks[1].calledAt = 30
    /\ tasks[1].passed = <<1>> /\ tasks[1].logged
    /\ conn["s1"].st = "closed"

----------------------------------------------------------------------------
(* C23 *)

\* C23: while the body of a handler behind require_room_by_code runs, the
\* event's code is the code of a room, which is the room passed, and the
\* user_id passed is a user's id, the one a valid credential gave: it is not
\* None.
C23_WrappedHasRoomAndUser ==
    \A c \in Conns :
        pc[c] = "wrapped" =>
            /\ h[c].code \in rooms /\ h[c].room = h[c].code
            /\ h[c].user_id # None
            /\ h[c].user_id \in UserIds

----------------------------------------------------------------------------
(* C24 *)

\* C24: a room.join that ends with a room.error to its sid has, up to the
\* statement that emits it, published no presence.update and has not run
\* join_room: it ends from a statement before join_room.  (The commit of the
\* user's last_seen and active precedes join_room: where this fails, the
\* user's fields have been written as well.)
C24_ErrorMeansNoEffect ==
    [][\A c \in Conns :
          (/\ h'[c].handler = "room.join"
           /\ pc[c] # "done" /\ pc'[c] = "done"
           /\ \E i \in 1..Len(out'[c]) : out'[c][i].ev = "room.error")
             => /\ \A i \in 1..Len(out'[c]) : out'[c][i].ev # "presence.update"
                /\ pc[c] \in {"idle", "join_query", "join_touch", "join_group"}]_vars

----------------------------------------------------------------------------
(* C25 *)

----------------------------------------------------------------------------
(* C26 *)

\* C26 as stated, for s1, which never joins a room: a room.leave of s1 ends
\* with nothing published, and its last_seen statement changes no user row.
C26_LeaveOnlyByMembers ==
    /\ [](Done("s1", "room.leave") => out["s1"] = <<>>)
    /\ [][Moves("s1", "leave_touch", "leave_group") => users' = users]_vars

\* C26, amended: room.leave does not look at the group.  With a user and the
\* code of a room it goes on to write the user's last_seen, whoever is in the
\* group; its leave_room changes no group when the sid is not a member; and
\* it publishes one presence.update to the room's group, so that a
\* room.leave that has run to its end has published exactly that.
C26_LeaveWhetherMemberOrNot ==
    /\ [][\A c \in Conns :
            /\ (pc[c] = "leave_query" /\ pc'[c] # pc[c] /\ ~h'[c].fault)
                  => pc'[c] = IF h[c].code \in rooms THEN "leave_touch" ELSE "done"
            /\ Moves(c, "leave_touch", "leave_group")
                  => users'[h[c].user_id].last_seen = now
            /\ (Moves(c, "leave_group", "leave_presence") /\ c \notin groups[h[c].room])
                  => groups' = groups
            /\ Moves(c, "leave_presence", "done")
                  => out'[c] = <<PresenceUpdate(h[c].room, groups)>>]_vars
    /\ [](\A c \in Conns :
            (Done(c, "room.leave") /\ h[c].ret) =>
                /\ Len(out[c]) = 1
                /\ out[c][1].ev = "presence.update" /\ out[c][1].room = h[c].room)

\* s1, of user 2, which never joined r1, has sent room.leave for r1 30 s in:
\* user 2's last_seen is 30 and a presence.update went to r1's group, which
\* is s2, of user 1.
C26_Witness ==
    /\ Done("s1", "room.leave") /\ h["s1"].ret /\ h["s1"].user_id = 2
    /\ h["s1"].room = "r1" /\ now = 30
    /\ conn["s2"].token.sub = "1" /\ groups["r1"] = {"s2"}
    /\ out["s1"] = <<PresenceUpdate("r1", groups)>>
    /\ out["s1"][1].recips = {"s2"}
    /\ users[2].last_seen = 30

====
